---- MODULE Spec2Model ----
(***************************************************************************)
(* Model of src/automation.py: the earnings screener.                      *)
(*                                                                         *)
(*   filter_dates, build_term_structure / term_spline are pure functions,  *)
(*   modelled as operators and exercised by SpecFilter and SpecTerm.       *)
(*   compute_recommendation and the batch loops of main are modelled as a  *)
(*   state machine (Spec): one action per block of the function, with the  *)
(*   answers of the two data providers drawn from small sets.              *)
(*                                                                         *)
(* Numbers.  Dates are day numbers; a date string is a record holding the  *)
(* day and whether the text is zero-padded (strptime accepts both,         *)
(* strftime only writes the padded form).  Implied volatilities, realized  *)
(* volatilities and quotes are integers in a fixed tick (0.05 for          *)
(* volatilities), chosen even so that the mean of two of them is exact.    *)
(* A float that results from a division is kept as an exact fraction       *)
(* <<num, den>>; den = 0 stands for NaN.  Floating-point rounding is not   *)
(* modelled.  Python's None is the empty sequence, a present value v is    *)
(* <<v>>.                                                                  *)
(***************************************************************************)
EXTENDS Integers, Sequences, FiniteSets, TLC

(* ------------------------------ bounds -------------------------------- *)
MaxDates == 3      \* longest input list given to filter_dates in SpecFilter
MaxSamples == 3    \* longest (days, ivs) input given to build_term_structure
MaxStrike == 2     \* strikes of an expiration are 1..MaxStrike

(* ------------------------- program constants -------------------------- *)
CutoffDays == 45          \* timedelta(days=45)
Window == 30              \* yang_zhang(window=30), rolling(30), len >= 30
MinAlpacaExpiries == 2    \* len(atm_iv) >= 2

None == <<>>
Some(v) == <<v>>
NaN == <<0, 0>>
Rat(n) == <<n, 1>>
IsNaN(r) == r[2] = 0
\* equality of two floats: NaN equals nothing
RatEq(a, b) == ~IsNaN(a) /\ ~IsNaN(b) /\ a[1] * b[2] = b[1] * a[2]

Range(s) == {s[i] : i \in 1..Len(s)}
SeqsUpTo(S, n) == UNION {[1..k -> S] : k \in 0..n}
Min(S) == CHOOSE x \in S : \A y \in S : x <= y
Max(S) == CHOOSE x \in S : \A y \in S : x >= y
Count(s, v) == Cardinality({i \in 1..Len(s) : s[i] = v})

(* --------------------------- date strings ----------------------------- *)
\* datetime.strptime(date, "%Y-%m-%d").date(): the day, padded or not
strptime(s) == s.day
\* d.strftime("%Y-%m-%d"): always the zero-padded text
strftime(d) == [day |-> d, canon |-> TRUE]

\* sorted(...) of a list of dates (ascending, duplicates kept)
RECURSIVE Insert(_, _)
Insert(s, v) ==
    IF s = <<>> THEN <<v>>
    ELSE IF v < Head(s) THEN <<v>> \o s
    ELSE <<Head(s)>> \o Insert(Tail(s), v)

RECURSIVE SortAsc(_)
SortAsc(s) == IF s = <<>> THEN <<>> ELSE Insert(SortAsc(Tail(s)), Head(s))

(* ---------------------------- filter_dates ---------------------------- *)
\* result of a call: either an exception or a value
Raised(m) == [raised |-> TRUE, msg |-> m, val |-> <<>>]
Returned(v) == [raised |-> FALSE, msg |-> "", val |-> v]

\* faulty variant: an empty selection is returned instead of raising
filter_dates_noraise(dates, tdy) ==
    LET cutoff_date == tdy + CutoffDays
        sorted_dates == SortAsc([i \in 1..Len(dates) |-> strptime(dates[i])])
        hits == {i \in 1..Len(sorted_dates) : sorted_dates[i] >= cutoff_date}
        arr == IF hits = {} THEN <<>>
               ELSE [j \in 1..Min(hits) |-> strftime(sorted_dates[j])]
    IN  IF Len(arr) > 0 /\ arr[1] = strftime(tdy) THEN Returned(Tail(arr))
        ELSE Returned(arr)

\* faulty variant: the cutoff is exclusive
filter_dates_exclusive(dates, tdy) ==
    LET cutoff_date == tdy + CutoffDays
        sorted_dates == SortAsc([i \in 1..Len(dates) |-> strptime(dates[i])])
        hits == {i \in 1..Len(sorted_dates) : sorted_dates[i] > cutoff_date}
        arr == IF hits = {} THEN <<>>
               ELSE [j \in 1..Min(hits) |-> strftime(sorted_dates[j])]
    IN  IF Len(arr) > 0
        THEN IF arr[1] = strftime(tdy) THEN Returned(Tail(arr)) ELSE Returned(arr)
        ELSE Raised("No date 45 days or more in the future found.")

filter_dates(dates, tdy) ==
    LET cutoff_date == tdy + CutoffDays
        sorted_dates == SortAsc([i \in 1..Len(dates) |-> strptime(dates[i])])
        \* the loop breaks at the first date >= cutoff_date
        hits == {i \in 1..Len(sorted_dates) : sorted_dates[i] >= cutoff_date}
        arr == IF hits = {} THEN <<>>
               ELSE [j \in 1..Min(hits) |-> strftime(sorted_dates[j])]
    IN  IF Len(arr) > 0
        THEN IF arr[1] = strftime(tdy) THEN Returned(Tail(arr)) ELSE Returned(arr)
        ELSE Raised("No date 45 days or more in the future found.")

(* ------------------------ build_term_structure ------------------------ *)
\* days.argsort(): numpy's default sort is not stable, so any permutation
\* that puts days in ascending order may come out
ArgSorts(days) ==
    {p \in [1..Len(days) -> 1..Len(days)] :
        /\ \A i, j \in 1..Len(days) : i # j => p[i] # p[j]
        /\ \A i \in 1..(Len(days) - 1) : days[p[i]] <= days[p[i + 1]]}

\* scipy interp1d(kind='linear', fill_value="extrapolate") called at x_new:
\* searchsorted (left), clip to 1..len-1, slope of the bracketing pair
interp1d(x, y, x_new) ==
    LET n == Len(x)
        idx == Cardinality({i \in 1..n : x[i] < x_new})
        hi0 == IF idx < 1 THEN 1 ELSE IF idx > n - 1 THEN n - 1 ELSE idx
        lo == hi0
        hi == hi0 + 1
        dx == x[hi] - x[lo]
    IN  IF dx = 0 THEN NaN
        ELSE <<(y[hi] - y[lo]) * (x_new - x[lo]) + y[lo] * dx, dx>>

\* the closure term_spline, as a function of the sorted arrays it captured
term_spline(ts, dte) ==
    IF dte < ts.days[1] THEN Rat(ts.ivs[1])
    ELSE IF dte > ts.days[Len(ts.days)] THEN Rat(ts.ivs[Len(ts.ivs)])
    ELSE interp1d(ts.days, ts.ivs, dte)

\* faulty variant: one expiry is enough to build
build_term_structure_one(days, ivs) ==
    IF Cardinality(Range(days)) < 1
    THEN [raised |-> TRUE, splines |-> {}]
    ELSE [raised |-> FALSE,
          splines |-> {[days |-> [i \in 1..Len(days) |-> days[p[i]]],
                        ivs |-> [i \in 1..Len(days) |-> ivs[p[i]]]] :
                       p \in ArgSorts(days)}]

\* raised: the ValueError; splines: the closures the call may return
build_term_structure(days, ivs) ==
    IF Cardinality(Range(days)) < 2
    THEN [raised |-> TRUE, splines |-> {}]
    ELSE [raised |-> FALSE,
          splines |-> {[days |-> [i \in 1..Len(days) |-> days[p[i]]],
                        ivs |-> [i \in 1..Len(days) |-> ivs[p[i]]]] :
                       p \in ArgSorts(days)}]

(* ------------------------------ state --------------------------------- *)
VARIABLES
    \* a call of filter_dates (SpecFilter)
    fd_pc, fd_dates, fd_out,
    \* a call of build_term_structure and a query of its closure (SpecTerm)
    ts_pc, ts_days, ts_ivs, ts_built, ts_query, ts_value,
    \* main
    pc, phase, ignore_filters, tickers, k, results_amc, results_bmo,
    \* compute_recommendation: locals
    today, symbol, exp_dates_filtered, exp_i, sorted_strikes, underlying_price,
    atm_iv, straddle, i, dtes, ivs, term, rv30, result,
    \* compute_recommendation: history of the run
    fallback_owed, tried_secondary, straddle_at, last_sample, discarded

fdVars == <<fd_pc, fd_dates, fd_out>>
tsVars == <<ts_pc, ts_days, ts_ivs, ts_built, ts_query, ts_value>>
mainVars == <<pc, phase, ignore_filters, tickers, k, results_amc, results_bmo>>
runVars == <<symbol, exp_dates_filtered, exp_i, sorted_strikes, underlying_price,
             atm_iv, straddle, i, dtes, ivs, term, rv30, result,
             fallback_owed, tried_secondary, straddle_at, last_sample,
             discarded>>
vars == <<fdVars, tsVars, mainVars, today, runVars>>

(* ------------------- compute_recommendation: helpers ------------------- *)
\* what compute_recommendation returns: a dict of flags or an error string
Failure(m) ==
    [kind |-> "error", msg |-> m, avg_volume |-> FALSE, iv30_rv30 |-> FALSE,
     ts_slope_0_45 |-> FALSE, expected_move |-> None]
ScreeningResult(av, ir, sl, em) ==
    [kind |-> "dict", msg |-> "", avg_volume |-> av, iv30_rv30 |-> ir,
     ts_slope_0_45 |-> sl, expected_move |-> em]

\* ticker.strip().upper()
Symbols == {" ", "aapl"}
StripUpper(s) == IF s = " " THEN "" ELSE "AAPL"
\* the symbols of one earnings list (AMC today, BMO tomorrow)
TickerLists == {<<>>} \cup {<<s>> : s \in Symbols}

\* answers of the providers
ExpDayPool == {0, 20, 30, CutoffDays}
Strikes == 1..MaxStrike
Prices == {2}
IVs == {6, 12}
Quotes == {2}
RVs == {0, 8}
BarCounts == {0, Window - 1, Window, Window + 1}
Opt(S) == {None} \cup {Some(v) : v \in S}

RECURSIVE SetToSeq(_)
SetToSeq(S) == IF S = {} THEN <<>> ELSE <<Min(S)>> \o SetToSeq(S \ {Min(S)})
\* the expiration strings a provider lists, in ascending order
ExpiryLists == {[j \in 1..Len(SetToSeq(S)) |-> strftime(SetToSeq(S)[j])] :
                S \in SUBSET ExpDayPool}
\* what filter_dates makes of the expirations a provider lists: whether some
\* listing makes it raise, and the lists it returns
FilterCanRaise(tdy) ==
    \E exp_dates \in ExpiryLists \ {<<>>} : filter_dates(exp_dates, tdy).raised
FilteredExpiries(tdy) ==
    {filter_dates(exp_dates, tdy).val :
        exp_dates \in {e \in ExpiryLists \ {<<>>} : ~filter_dates(e, tdy).raised}}
\* get_alpaca_option_chain(ticker) of alpaca_integration: it raises (a
\* transport, authentication or rate-limit condition), returns nothing, or
\* returns a chain keyed by its expirations
get_alpaca_option_chain == {"raises", "none", "chain"}

Abs(n) == IF n < 0 THEN -n ELSE n
\* sorted(strikes, key=lambda s: abs(s - underlying_price)): strikes at the
\* same distance keep the order the provider listed them in
Rankings(S, price) ==
    {r \in [1..Cardinality(S) -> S] :
        /\ \A a, b \in 1..Cardinality(S) : a # b => r[a] # r[b]
        /\ \A a \in 1..(Cardinality(S) - 1) :
              Abs(r[a] - price) <= Abs(r[a + 1] - price)}
\* (table['strike'] - underlying_price).abs().idxmin(): a nearest row
Nearest(S, price) == {v \in S : \A w \in S : Abs(v - price) <= Abs(w - price)}
\* call_idx and put_idx of lines 320 and 323: the calls table and the puts
\* table of a chain list their own strikes, and each index is looked up in
\* its own table
IdxminPairs(price) ==
    {pr \in Strikes \X Strikes :
        \E calls, puts \in (SUBSET Strikes) \ {{}} :
            pr[1] \in Nearest(calls, price) /\ pr[2] \in Nearest(puts, price)}

\* atm_iv is a dict keyed by expiration, in insertion order
HasKey(d, key) == \E j \in 1..Len(d) : d[j].exp = key
DictSet(d, key, entry) ==
    IF HasKey(d, key)
    THEN [j \in 1..Len(d) |-> IF d[j].exp = key THEN entry ELSE d[j]]
    ELSE Append(d, entry)

\* atm_iv_value = (call_iv + put_iv) / 2.0
atm_iv_value(call_iv, put_iv) == (call_iv + put_iv) \div 2
\* (bid + ask) / 2.0
Mid(bid, ask) == (bid + ask) \div 2

\* lines 191-195: the straddle after a sample on the Alpaca path
alpaca_straddle(old, call_bid, call_ask, put_bid, put_ask) ==
    IF old = None
    THEN IF None \notin {call_bid, call_ask, put_bid, put_ask}
         THEN Some(Mid(call_bid[1], call_ask[1]) + Mid(put_bid[1], put_ask[1]))
         ELSE old
    ELSE old

\* lines 327-341: the straddle after a sample on the Yahoo path
yahoo_straddle(old, cnt, call_bid, call_ask, put_bid, put_ask) ==
    IF cnt = 0
    THEN LET call_mid == IF call_bid # None /\ call_ask # None
                         THEN Some(Mid(call_bid[1], call_ask[1])) ELSE None
             put_mid == IF put_bid # None /\ put_ask # None
                        THEN Some(Mid(put_bid[1], put_ask[1])) ELSE None
         IN  IF call_mid # None /\ put_mid # None
             THEN Some(call_mid[1] + put_mid[1]) ELSE old
    ELSE old

\* lines 205-212 and 345-352: days to expiry and ivs, in dict order
DaysToExpiry(d, tdy) == [j \in 1..Len(d) |-> strptime(d[j].exp) - tdy]
IvList(d) == [j \in 1..Len(d) |-> d[j].iv]

\* (term_spline(45) - term_spline(dtes[0])) / (45 - dtes[0]) <= -0.00406,
\* volatilities in ticks of 0.05; a comparison with NaN is false
SlopeFlag(ts, d0) ==
    LET a == term_spline(ts, CutoffDays)
        b == term_spline(ts, d0)
        num == a[1] * b[2] - b[1] * a[2]
        den == a[2] * b[2] * (CutoffDays - d0)
    IN  IF IsNaN(a) \/ IsNaN(b) THEN FALSE
        ELSE IF den > 0 THEN 5000 * num <= -406 * den
        ELSE 5000 * num >= -406 * den

\* yang_zhang(price_data) on n bars: the first bar has no previous close,
\* so the rolling sums over 30 bars are defined at the last bar only from
\* 31 bars on; rv is the value of the estimator on those bars
yang_zhang(n, rv) == IF n - 1 >= Window THEN Rat(rv) ELSE NaN

\* term_spline(30) / rv30 >= 1.25 (numpy: x / 0 is inf or nan, no exception)
RatioFlag(iv30, rv) ==
    IF IsNaN(iv30) \/ IsNaN(rv) THEN FALSE
    ELSE IF rv[1] = 0 THEN iv30[1] > 0
    ELSE 4 * iv30[1] * rv[2] >= 5 * rv[1] * iv30[2]

\* str(round(straddle / underlying_price * 100, 2)) + "%" if straddle else
\* None, in hundredths of a percent
ExpectedMove(st, price) ==
    IF st = None \/ st = Some(0) THEN None
    ELSE Some((2 * st[1] * 10000 + price) \div (2 * price))

\* faulty variant: the samples and the straddle of the primary provider are kept
YahooFresh_keep(old) == old

\* lines 312-313: atm_iv = {}, straddle = None
YahooFresh(old) == None

(* ----------------------- the pure-function harness --------------------- *)
\* dates around today and around the 45-day cutoff
FilterDays == {-1, 0, 10, CutoffDays - 1, CutoffDays, CutoffDays + 5}
DateStrings == [day : FilterDays, canon : BOOLEAN]

FilterIdle == fd_pc = "idle" /\ fd_dates = <<>> /\ fd_out = Returned(<<>>)
FilterInit ==
    /\ fd_pc = "call"
    /\ fd_dates \in SeqsUpTo(DateStrings, MaxDates)
    /\ fd_out = Returned(<<>>)

FilterCall ==
    /\ fd_pc = "call"
    /\ fd_out' = filter_dates(fd_dates, today)
    /\ fd_pc' = "done"
    /\ UNCHANGED <<fd_dates, tsVars, mainVars, today, runVars>>

TermDays == {10, 30, 50}
TermIVs == {6, 12}
QueryDays == {5, 10, 20, 30, CutoffDays, 50, 60}

TermIdle ==
    /\ ts_pc = "idle" /\ ts_days = <<>> /\ ts_ivs = <<>>
    /\ ts_built = None /\ ts_query = 0 /\ ts_value = NaN
TermInit ==
    /\ ts_pc = "call"
    /\ \E n \in 0..MaxSamples :
          ts_days \in [1..n -> TermDays] /\ ts_ivs \in [1..n -> TermIVs]
    /\ ts_built = None /\ ts_query = 0 /\ ts_value = NaN

TermBuildRaises ==
    /\ ts_pc = "call"
    /\ build_term_structure(ts_days, ts_ivs).raised
    /\ ts_pc' = "raised"
    /\ UNCHANGED <<ts_days, ts_ivs, ts_built, ts_query, ts_value>>
    /\ UNCHANGED <<fdVars, mainVars, today, runVars>>

TermBuild ==
    /\ ts_pc = "call"
    /\ ~build_term_structure(ts_days, ts_ivs).raised
    /\ \E ts \in build_term_structure(ts_days, ts_ivs).splines :
          ts_built' = Some(ts)
    /\ ts_pc' = "built"
    /\ UNCHANGED <<ts_days, ts_ivs, ts_query, ts_value>>
    /\ UNCHANGED <<fdVars, mainVars, today, runVars>>

TermQuery ==
    /\ ts_pc = "built"
    /\ \E d \in QueryDays :
          /\ ts_query' = d
          /\ ts_value' = term_spline(ts_built[1], d)
    /\ ts_pc' = "queried"
    /\ UNCHANGED <<ts_days, ts_ivs, ts_built>>
    /\ UNCHANGED <<fdVars, mainVars, today, runVars>>

(* -------------------------------- main --------------------------------- *)
\* the frame of compute_recommendation before its first statement; the
\* last four are history variables of the run:
\*   fallback_owed    a call to Alpaca raised and Yahoo has not been asked since
\*   tried_secondary  the Yahoo block of line 292 was entered
\*   straddle_at      the expiration and provider the straddle was computed at
\*   last_sample      the contracts behind the sample the latest step recorded
\*   discarded        what the latest step dropped at lines 312-313
FreshFrame ==
    /\ exp_dates_filtered = <<>> /\ exp_i = 0 /\ sorted_strikes = <<>>
    /\ underlying_price = None /\ atm_iv = <<>> /\ straddle = None /\ i = 0
    /\ dtes = <<>> /\ ivs = <<>> /\ term = None /\ rv30 = None /\ result = None
    /\ fallback_owed = FALSE /\ tried_secondary = FALSE
    /\ straddle_at = None /\ last_sample = None /\ discarded = None

MainIdle ==
    /\ pc = "idle" /\ phase = "amc" /\ ignore_filters = FALSE
    /\ tickers = <<>> /\ k = 0 /\ results_amc = <<>> /\ results_bmo = <<>>
    /\ today = 0 /\ symbol = "" /\ FreshFrame

MainInit ==
    /\ pc = "fetch" /\ phase = "amc" /\ ignore_filters \in BOOLEAN
    /\ tickers = <<>> /\ k = 0 /\ results_amc = <<>> /\ results_bmo = <<>>
    /\ today = 0 /\ symbol = "" /\ FreshFrame

\* faulty variant: without --ignore-filters every dict is appended
Passes_any(res, ignore) == ignore \/ res.kind = "dict"

\* lines 422-431 and 447-456: whether the iteration appends its result
Passes(res, ignore) ==
    \/ ignore
    \/ /\ res.kind = "dict"
       /\ res.avg_volume /\ res.iv30_rv30 /\ res.ts_slope_0_45

\* return res (also: the outer except of line 364 returns f"Error: {e}")
Return(res) == result' = Some(res) /\ pc' = "ret"

\* the expiration the sampling loop is at
CurExp == exp_dates_filtered[exp_i]

\* get_todays_earnings() / get_tomorrows_earnings() and the 'when' filter
GetEarnings ==
    /\ pc = "fetch"
    /\ tickers' \in TickerLists
    /\ k' = 1
    /\ pc' = "loop"
    /\ UNCHANGED <<phase, ignore_filters, results_amc, results_bmo, today,
                   symbol, exp_dates_filtered, exp_i, sorted_strikes,
                   underlying_price, atm_iv, straddle, i, dtes, ivs, term,
                   rv30, result, fallback_owed, tried_secondary, straddle_at,
                   last_sample, discarded>>
    /\ UNCHANGED <<fdVars, tsVars>>

\* requests.get or response.json() raises: nothing in main catches it
GetEarningsRaises ==
    /\ pc = "fetch"
    /\ pc' = "crashed"
    /\ UNCHANGED <<phase, ignore_filters, tickers, k, results_amc,
                   results_bmo, today, symbol, exp_dates_filtered, exp_i,
                   sorted_strikes, underlying_price, atm_iv, straddle, i,
                   dtes, ivs, term, rv30, result, fallback_owed,
                   tried_secondary, straddle_at, last_sample, discarded>>
    /\ UNCHANGED <<fdVars, tsVars>>

\* lines 418-421 and 443-446: the next ticker; compute_recommendation starts
\* on a fresh frame
LoopCall ==
    /\ pc = "loop" /\ k <= Len(tickers)
    /\ symbol' = tickers[k]
    /\ pc' = "cr_start"
    /\ UNCHANGED <<phase, ignore_filters, tickers, k, results_amc,
                   results_bmo, today, exp_dates_filtered, exp_i,
                   sorted_strikes, underlying_price, atm_iv, straddle, i,
                   dtes, ivs, term, rv30, result, fallback_owed,
                   tried_secondary, straddle_at, last_sample, discarded>>
    /\ UNCHANGED <<fdVars, tsVars>>

\* lines 435-441: the AMC loop is over; on to the BMO list
LoopEndAMC ==
    /\ pc = "loop" /\ k > Len(tickers) /\ phase = "amc"
    /\ phase' = "bmo"
    /\ pc' = "fetch"
    /\ UNCHANGED <<ignore_filters, tickers, k, results_amc, results_bmo,
                   today, symbol, exp_dates_filtered, exp_i, sorted_strikes,
                   underlying_price, atm_iv, straddle, i, dtes, ivs, term,
                   rv30, result, fallback_owed, tried_secondary, straddle_at,
                   last_sample, discarded>>
    /\ UNCHANGED <<fdVars, tsVars>>

\* lines 460-461
LoopEndBMO ==
    /\ pc = "loop" /\ k > Len(tickers) /\ phase = "bmo"
    /\ pc' = "done"
    /\ UNCHANGED <<phase, ignore_filters, tickers, k, results_amc,
                   results_bmo, today, symbol, exp_dates_filtered, exp_i,
                   sorted_strikes, underlying_price, atm_iv, straddle, i,
                   dtes, ivs, term, rv30, result, fallback_owed,
                   tried_secondary, straddle_at, last_sample, discarded>>
    /\ UNCHANGED <<fdVars, tsVars>>

\* lines 422-431 and 447-456: the rest of the loop body, once
\* compute_recommendation has returned and its frame is gone
LoopAppend ==
    /\ pc = "ret"
    /\ LET entry == [ticker |-> symbol, result |-> result[1]]
           add == Passes(result[1], ignore_filters)
       IN  /\ results_amc' = IF add /\ phase = "amc"
                             THEN Append(results_amc, entry) ELSE results_amc
           /\ results_bmo' = IF add /\ phase = "bmo"
                             THEN Append(results_bmo, entry) ELSE results_bmo
    /\ k' = k + 1
    /\ pc' = "loop"
    /\ exp_dates_filtered' = <<>> /\ exp_i' = 0 /\ sorted_strikes' = <<>>
    /\ underlying_price' = None /\ atm_iv' = <<>> /\ straddle' = None /\ i' = 0
    /\ dtes' = <<>> /\ ivs' = <<>> /\ term' = None /\ rv30' = None /\ result' = None
    /\ fallback_owed' = FALSE /\ tried_secondary' = FALSE
    /\ straddle_at' = None /\ last_sample' = None /\ discarded' = None
    /\ UNCHANGED <<phase, ignore_filters, tickers, today, symbol>>
    /\ UNCHANGED <<fdVars, tsVars>>

(* ----------------------- compute_recommendation ------------------------ *)
\* lines 121-123
BlankTicker ==
    /\ pc = "cr_start" /\ StripUpper(symbol) = ""
    /\ Return(Failure("No stock symbol provided."))
    /\ last_sample' = None /\ discarded' = None
    /\ UNCHANGED <<phase, ignore_filters, tickers, k, results_amc,
                   results_bmo, today, symbol, exp_dates_filtered, exp_i,
                   sorted_strikes, underlying_price, atm_iv, straddle, i,
                   dtes, ivs, term, rv30, fallback_owed, tried_secondary,
                   straddle_at>>
    /\ UNCHANGED <<fdVars, tsVars>>

\* line 125 raises: the call stands outside the inner try of line 130, so the
\* outer except of line 364 returns the error
AlpacaChainRaises ==
    /\ pc = "cr_start" /\ StripUpper(symbol) # ""
    /\ "raises" \in get_alpaca_option_chain
    /\ fallback_owed' = TRUE
    /\ Return(Failure("Error: provider unavailable"))
    /\ last_sample' = None /\ discarded' = None
    /\ UNCHANGED <<phase, ignore_filters, tickers, k, results_amc,
                   results_bmo, today, symbol, exp_dates_filtered, exp_i,
                   sorted_strikes, underlying_price, atm_iv, straddle, i,
                   dtes, ivs, term, rv30, tried_secondary, straddle_at>>
    /\ UNCHANGED <<fdVars, tsVars>>

\* line 129: option_chain is None or empty
AlpacaChainEmpty ==
    /\ pc = "cr_start" /\ StripUpper(symbol) # ""
    /\ "none" \in get_alpaca_option_chain
    /\ pc' = "yahoo"
    /\ last_sample' = None /\ discarded' = None
    /\ UNCHANGED <<phase, ignore_filters, tickers, k, results_amc,
                   results_bmo, today, symbol, exp_dates_filtered, exp_i,
                   sorted_strikes, underlying_price, atm_iv, straddle, i,
                   dtes, ivs, term, rv30, result, fallback_owed,
                   tried_secondary, straddle_at>>
    /\ UNCHANGED <<fdVars, tsVars>>

\* lines 132-138: filter_dates raises on the Alpaca expirations
AlpacaFilterRaises ==
    /\ pc = "cr_start" /\ StripUpper(symbol) # ""
    /\ "chain" \in get_alpaca_option_chain
    /\ FilterCanRaise(today) = TRUE
    /\ Return(Failure("Error: Not enough option data."))
    /\ last_sample' = None /\ discarded' = None
    /\ UNCHANGED <<phase, ignore_filters, tickers, k, results_amc,
                   results_bmo, today, symbol, exp_dates_filtered, exp_i,
                   sorted_strikes, underlying_price, atm_iv, straddle, i,
                   dtes, ivs, term, rv30, fallback_owed, tried_secondary,
                   straddle_at>>
    /\ UNCHANGED <<fdVars, tsVars>>

\* lines 132-135: the filtered expirations of the Alpaca chain
AlpacaFilterOk ==
    /\ pc = "cr_start" /\ StripUpper(symbol) # ""
    /\ "chain" \in get_alpaca_option_chain
    /\ exp_dates_filtered' \in FilteredExpiries(today)
    /\ pc' = "alpaca_price"
    /\ last_sample' = None /\ discarded' = None
    /\ UNCHANGED <<phase, ignore_filters, tickers, k, results_amc,
                   results_bmo, today, symbol, exp_i, sorted_strikes,
                   underlying_price, atm_iv, straddle, i, dtes, ivs, term,
                   rv30, result, fallback_owed, tried_secondary, straddle_at>>
    /\ UNCHANGED <<fdVars, tsVars>>

\* lines 140-147: Alpaca's latest bar gives the price
AlpacaPriceOk ==
    /\ pc = "alpaca_price"
    /\ \E p \in Prices : underlying_price' = Some(p)
    /\ exp_i' = 1
    /\ pc' = "alpaca_expiry"
    /\ last_sample' = None /\ discarded' = None
    /\ UNCHANGED <<phase, ignore_filters, tickers, k, results_amc,
                   results_bmo, today, symbol, exp_dates_filtered,
                   sorted_strikes, atm_iv, straddle, i, dtes, ivs, term,
                   rv30, result, fallback_owed, tried_secondary, straddle_at>>
    /\ UNCHANGED <<fdVars, tsVars>>

\* lines 148-154: Alpaca raises (caught at line 148) or has no bar for the
\* ticker, and Yahoo gives the price
AlpacaPriceFromYahoo ==
    /\ pc = "alpaca_price"
    /\ \E p \in Prices : underlying_price' = Some(p)
    /\ exp_i' = 1
    /\ pc' = "alpaca_expiry"
    /\ last_sample' = None /\ discarded' = None
    /\ UNCHANGED <<phase, ignore_filters, tickers, k, results_amc,
                   results_bmo, today, symbol, exp_dates_filtered,
                   sorted_strikes, atm_iv, straddle, i, dtes, ivs, term,
                   rv30, result, fallback_owed, tried_secondary, straddle_at>>
    /\ UNCHANGED <<fdVars, tsVars>>

\* lines 151-153 raise as well: caught at line 288, on to the Yahoo block
AlpacaPriceNone ==
    /\ pc = "alpaca_price"
    /\ pc' = "yahoo"
    /\ last_sample' = None /\ discarded' = None
    /\ UNCHANGED <<phase, ignore_filters, tickers, k, results_amc,
                   results_bmo, today, symbol, exp_dates_filtered, exp_i,
                   sorted_strikes, underlying_price, atm_iv, straddle, i,
                   dtes, ivs, term, rv30, result, fallback_owed,
                   tried_secondary, straddle_at>>
    /\ UNCHANGED <<fdVars, tsVars>>

\* the loop of line 159 is exhausted
AlpacaLoopDone ==
    /\ pc = "alpaca_expiry" /\ exp_i > Len(exp_dates_filtered)
    /\ pc' = "alpaca_accept"
    /\ last_sample' = None /\ discarded' = None
    /\ UNCHANGED <<phase, ignore_filters, tickers, k, results_amc,
                   results_bmo, today, symbol, exp_dates_filtered, exp_i,
                   sorted_strikes, underlying_price, atm_iv, straddle, i,
                   dtes, ivs, term, rv30, result, fallback_owed,
                   tried_secondary, straddle_at>>
    /\ UNCHANGED <<fdVars, tsVars>>

\* lines 160-162: the expiration lists no strike
AlpacaNoStrikes ==
    /\ pc = "alpaca_expiry" /\ exp_i <= Len(exp_dates_filtered)
    /\ exp_i' = exp_i + 1
    /\ last_sample' = None /\ discarded' = None
    /\ UNCHANGED <<pc, phase, ignore_filters, tickers, k, results_amc,
                   results_bmo, today, symbol, exp_dates_filtered,
                   sorted_strikes, underlying_price, atm_iv, straddle, i,
                   dtes, ivs, term, rv30, result, fallback_owed,
                   tried_secondary, straddle_at>>
    /\ UNCHANGED <<fdVars, tsVars>>

\* line 163: the strikes of the expiration, nearest first
AlpacaRankStrikes ==
    /\ pc = "alpaca_expiry" /\ exp_i <= Len(exp_dates_filtered)
    /\ \E S \in (SUBSET Strikes) \ {{}} :
          sorted_strikes' \in Rankings(S, underlying_price[1])
    /\ pc' = "alpaca_strike"
    /\ last_sample' = None /\ discarded' = None
    /\ UNCHANGED <<phase, ignore_filters, tickers, k, results_amc,
                   results_bmo, today, symbol, exp_dates_filtered, exp_i,
                   underlying_price, atm_iv, straddle, i, dtes, ivs, term,
                   rv30, result, fallback_owed, tried_secondary, straddle_at>>
    /\ UNCHANGED <<fdVars, tsVars>>

\* lines 165-168: the call or the put contract is missing at the strike
AlpacaNoContract ==
    /\ pc = "alpaca_strike" /\ sorted_strikes # <<>>
    /\ \E call_contract, put_contract \in BOOLEAN :
          ~call_contract \/ ~put_contract
    /\ sorted_strikes' = Tail(sorted_strikes)
    /\ last_sample' = None /\ discarded' = None
    /\ UNCHANGED <<pc, phase, ignore_filters, tickers, k, results_amc,
                   results_bmo, today, symbol, exp_dates_filtered, exp_i,
                   underlying_price, atm_iv, straddle, i, dtes, ivs, term,
                   rv30, result, fallback_owed, tried_secondary, straddle_at>>
    /\ UNCHANGED <<fdVars, tsVars>>

\* line 172 raises: caught at line 288, on to the Yahoo block
AlpacaSnapshotRaises ==
    /\ pc = "alpaca_strike" /\ sorted_strikes # <<>>
    /\ fallback_owed' = TRUE
    /\ pc' = "yahoo"
    /\ last_sample' = None /\ discarded' = None
    /\ UNCHANGED <<phase, ignore_filters, tickers, k, results_amc,
                   results_bmo, today, symbol, exp_dates_filtered, exp_i,
                   sorted_strikes, underlying_price, atm_iv, straddle, i,
                   dtes, ivs, term, rv30, result, tried_secondary,
                   straddle_at>>
    /\ UNCHANGED <<fdVars, tsVars>>

\* lines 173-176: a snapshot is missing in the response
AlpacaNoSnapshot ==
    /\ pc = "alpaca_strike" /\ sorted_strikes # <<>>
    /\ \E call_snap, put_snap \in BOOLEAN : ~call_snap \/ ~put_snap
    /\ sorted_strikes' = Tail(sorted_strikes)
    /\ last_sample' = None /\ discarded' = None
    /\ UNCHANGED <<pc, phase, ignore_filters, tickers, k, results_amc,
                   results_bmo, today, symbol, exp_dates_filtered, exp_i,
                   underlying_price, atm_iv, straddle, i, dtes, ivs, term,
                   rv30, result, fallback_owed, tried_secondary, straddle_at>>
    /\ UNCHANGED <<fdVars, tsVars>>

\* lines 177-180: a snapshot has no latest quote
AlpacaNoQuote ==
    /\ pc = "alpaca_strike" /\ sorted_strikes # <<>>
    /\ \E call_quote, put_quote \in BOOLEAN : ~call_quote \/ ~put_quote
    /\ sorted_strikes' = Tail(sorted_strikes)
    /\ last_sample' = None /\ discarded' = None
    /\ UNCHANGED <<pc, phase, ignore_filters, tickers, k, results_amc,
                   results_bmo, today, symbol, exp_dates_filtered, exp_i,
                   underlying_price, atm_iv, straddle, i, dtes, ivs, term,
                   rv30, result, fallback_owed, tried_secondary, straddle_at>>
    /\ UNCHANGED <<fdVars, tsVars>>

\* lines 185-188: an implied volatility is None
AlpacaNoIV ==
    /\ pc = "alpaca_strike" /\ sorted_strikes # <<>>
    /\ \E call_iv, put_iv \in Opt(IVs) : call_iv = None \/ put_iv = None
    /\ sorted_strikes' = Tail(sorted_strikes)
    /\ last_sample' = None /\ discarded' = None
    /\ UNCHANGED <<pc, phase, ignore_filters, tickers, k, results_amc,
                   results_bmo, today, symbol, exp_dates_filtered, exp_i,
                   underlying_price, atm_iv, straddle, i, dtes, ivs, term,
                   rv30, result, fallback_owed, tried_secondary, straddle_at>>
    /\ UNCHANGED <<fdVars, tsVars>>

\* lines 181-196: the sample of the expiration, the straddle, break
AlpacaSample ==
    /\ pc = "alpaca_strike" /\ sorted_strikes # <<>>
    /\ \E call_iv, put_iv \in IVs :
       \E call_bid, call_ask, put_bid, put_ask \in Opt(Quotes) :
          LET strike == Head(sorted_strikes)
              st == alpaca_straddle(straddle, call_bid, call_ask, put_bid, put_ask)
          IN  /\ atm_iv' = DictSet(atm_iv, CurExp,
                               [exp |-> CurExp, iv |-> atm_iv_value(call_iv, put_iv),
                                src |-> "alpaca"])
              /\ last_sample' = Some([exp |-> CurExp, src |-> "alpaca",
                                      call_strike |-> strike, put_strike |-> strike,
                                      call_iv |-> call_iv, put_iv |-> put_iv])
              /\ straddle' = st
              /\ straddle_at' = IF st # straddle
                                THEN Some([exp |-> CurExp, src |-> "alpaca"])
                                ELSE straddle_at
    /\ sorted_strikes' = <<>>
    /\ exp_i' = exp_i + 1
    /\ pc' = "alpaca_expiry"
    /\ discarded' = None
    /\ UNCHANGED <<phase, ignore_filters, tickers, k, results_amc,
                   results_bmo, today, symbol, exp_dates_filtered,
                   underlying_price, i, dtes, ivs, term, rv30, result,
                   fallback_owed, tried_secondary>>
    /\ UNCHANGED <<fdVars, tsVars>>

\* lines 197-199: no strike of the expiration gave a sample
AlpacaSkipExpiry ==
    /\ pc = "alpaca_strike" /\ sorted_strikes = <<>>
    /\ exp_i' = exp_i + 1
    /\ pc' = "alpaca_expiry"
    /\ last_sample' = None /\ discarded' = None
    /\ UNCHANGED <<phase, ignore_filters, tickers, k, results_amc,
                   results_bmo, today, symbol, exp_dates_filtered,
                   sorted_strikes, underlying_price, atm_iv, straddle, i,
                   dtes, ivs, term, rv30, result, fallback_owed,
                   tried_secondary, straddle_at>>
    /\ UNCHANGED <<fdVars, tsVars>>

\* line 201 fails: Alpaca gave fewer than two expiries
AlpacaRejected ==
    /\ pc = "alpaca_accept" /\ ~(Len(atm_iv) >= MinAlpacaExpiries)
    /\ pc' = "yahoo"
    /\ last_sample' = None /\ discarded' = None
    /\ UNCHANGED <<phase, ignore_filters, tickers, k, results_amc,
                   results_bmo, today, symbol, exp_dates_filtered, exp_i,
                   sorted_strikes, underlying_price, atm_iv, straddle, i,
                   dtes, ivs, term, rv30, result, fallback_owed,
                   tried_secondary, straddle_at>>
    /\ UNCHANGED <<fdVars, tsVars>>

\* lines 201-214: the term structure and the slope from the Alpaca samples; a
\* ValueError or a ZeroDivisionError there is caught at line 288
AlpacaAccepted ==
    /\ pc = "alpaca_accept" /\ Len(atm_iv) >= MinAlpacaExpiries
    /\ dtes' = DaysToExpiry(atm_iv, today)
    /\ ivs' = IvList(atm_iv)
    /\ LET built == build_term_structure(dtes', ivs')
       IN  IF built.raised \/ CutoffDays - dtes'[1] = 0
           THEN pc' = "yahoo" /\ term' = term
           ELSE pc' = "alpaca_rv" /\ \E ts \in built.splines : term' = Some(ts)
    /\ last_sample' = None /\ discarded' = None
    /\ UNCHANGED <<phase, ignore_filters, tickers, k, results_amc,
                   results_bmo, today, symbol, exp_dates_filtered, exp_i,
                   sorted_strikes, underlying_price, atm_iv, straddle, i,
                   rv30, result, fallback_owed, tried_secondary, straddle_at>>
    /\ UNCHANGED <<fdVars, tsVars>>

\* line 231 raises: caught at line 286, on to the Yahoo block
AlpacaBarsRaise ==
    /\ pc = "alpaca_rv"
    /\ fallback_owed' = TRUE
    /\ pc' = "yahoo"
    /\ last_sample' = None /\ discarded' = None
    /\ UNCHANGED <<phase, ignore_filters, tickers, k, results_amc,
                   results_bmo, today, symbol, exp_dates_filtered, exp_i,
                   sorted_strikes, underlying_price, atm_iv, straddle, i,
                   dtes, ivs, term, rv30, result, tried_secondary,
                   straddle_at>>
    /\ UNCHANGED <<fdVars, tsVars>>

\* lines 235-285: no bars, or fewer than 30
AlpacaBarsShort ==
    /\ pc = "alpaca_rv"
    /\ \E n \in BarCounts : ~(n >= Window)
    /\ pc' = "yahoo"
    /\ last_sample' = None /\ discarded' = None
    /\ UNCHANGED <<phase, ignore_filters, tickers, k, results_amc,
                   results_bmo, today, symbol, exp_dates_filtered, exp_i,
                   sorted_strikes, underlying_price, atm_iv, straddle, i,
                   dtes, ivs, term, rv30, result, fallback_owed,
                   tried_secondary, straddle_at>>
    /\ UNCHANGED <<fdVars, tsVars>>

\* lines 260-274: rv30 from the Alpaca bars, then Yahoo's volume history raises
\* or is too short for rolling(30) (IndexError): caught at line 286
AlpacaVolumeFails ==
    /\ pc = "alpaca_rv"
    /\ \E n \in BarCounts, rv \in RVs :
          n >= Window /\ rv30' = Some(yang_zhang(n, rv))
    /\ \E raises \in BOOLEAN, m \in BarCounts : raises \/ m < Window
    /\ pc' = "yahoo"
    /\ last_sample' = None /\ discarded' = None
    /\ UNCHANGED <<phase, ignore_filters, tickers, k, results_amc,
                   results_bmo, today, symbol, exp_dates_filtered, exp_i,
                   sorted_strikes, underlying_price, atm_iv, straddle, i,
                   dtes, ivs, term, result, fallback_owed, tried_secondary,
                   straddle_at>>
    /\ UNCHANGED <<fdVars, tsVars>>

\* lines 260-281: the result from Alpaca's options and bars
AlpacaReturn ==
    /\ pc = "alpaca_rv"
    /\ \E n \in BarCounts, rv \in RVs, m \in BarCounts, volume_ok \in BOOLEAN :
          /\ n >= Window
          /\ m >= Window
          /\ rv30' = Some(yang_zhang(n, rv))
          /\ Return(ScreeningResult(
                 volume_ok,
                 RatioFlag(term_spline(term[1], 30), yang_zhang(n, rv)),
                 SlopeFlag(term[1], dtes[1]),
                 ExpectedMove(straddle, underlying_price[1])))
    /\ last_sample' = None /\ discarded' = None
    /\ UNCHANGED <<phase, ignore_filters, tickers, k, results_amc,
                   results_bmo, today, symbol, exp_dates_filtered, exp_i,
                   sorted_strikes, underlying_price, atm_iv, straddle, i,
                   dtes, ivs, term, fallback_owed, tried_secondary,
                   straddle_at>>
    /\ UNCHANGED <<fdVars, tsVars>>

\* The Yahoo block, lines 291-363.  sorted_strikes, dtes, ivs, term and rv30
\* still hold what the Alpaca block left in them; the Yahoo block assigns each
\* before it reads it, so they are cleared on entry.
\* lines 292-298: Yahoo lists no option expiration
YahooNoOptions ==
    /\ pc = "yahoo"
    /\ tried_secondary' = TRUE
    /\ fallback_owed' = FALSE
    /\ sorted_strikes' = <<>> /\ dtes' = <<>> /\ ivs' = <<>> /\ term' = None /\ rv30' = None
    /\ Return(Failure("Error: No options found for stock symbol."))
    /\ last_sample' = None /\ discarded' = None
    /\ UNCHANGED <<phase, ignore_filters, tickers, k, results_amc,
                   results_bmo, today, symbol, exp_dates_filtered, exp_i,
                   underlying_price, atm_iv, straddle, i, straddle_at>>
    /\ UNCHANGED <<fdVars, tsVars>>

\* stock.options (line 295) or stock.option_chain (line 306) raises something
\* else than KeyError: the outer except returns the error
YahooRaises ==
    /\ pc = "yahoo"
    /\ tried_secondary' = TRUE
    /\ fallback_owed' = FALSE
    /\ sorted_strikes' = <<>> /\ dtes' = <<>> /\ ivs' = <<>> /\ term' = None /\ rv30' = None
    /\ Return(Failure("Error: provider unavailable"))
    /\ last_sample' = None /\ discarded' = None
    /\ UNCHANGED <<phase, ignore_filters, tickers, k, results_amc,
                   results_bmo, today, symbol, exp_dates_filtered, exp_i,
                   underlying_price, atm_iv, straddle, i, straddle_at>>
    /\ UNCHANGED <<fdVars, tsVars>>

\* lines 299-303: filter_dates raises on Yahoo's expirations
YahooFilterRaises ==
    /\ pc = "yahoo"
    /\ tried_secondary' = TRUE
    /\ fallback_owed' = FALSE
    /\ sorted_strikes' = <<>> /\ dtes' = <<>> /\ ivs' = <<>> /\ term' = None /\ rv30' = None
    /\ FilterCanRaise(today) = TRUE
    /\ Return(Failure("Error: Not enough option data."))
    /\ last_sample' = None /\ discarded' = None
    /\ UNCHANGED <<phase, ignore_filters, tickers, k, results_amc,
                   results_bmo, today, symbol, exp_dates_filtered, exp_i,
                   underlying_price, atm_iv, straddle, i, straddle_at>>
    /\ UNCHANGED <<fdVars, tsVars>>

\* lines 307-310: the price cannot be read
YahooPriceFails ==
    /\ pc = "yahoo"
    /\ tried_secondary' = TRUE
    /\ fallback_owed' = FALSE
    /\ sorted_strikes' = <<>> /\ dtes' = <<>> /\ ivs' = <<>> /\ term' = None /\ rv30' = None
    /\ exp_dates_filtered' \in FilteredExpiries(today)
    /\ Return(Failure("Error: Unable to retrieve underlying stock price."))
    /\ last_sample' = None /\ discarded' = None
    /\ UNCHANGED <<phase, ignore_filters, tickers, k, results_amc,
                   results_bmo, today, symbol, exp_i, underlying_price,
                   atm_iv, straddle, i, straddle_at>>
    /\ UNCHANGED <<fdVars, tsVars>>

\* lines 292-313: expirations, chains and price from Yahoo; atm_iv and
\* straddle start afresh
YahooReady ==
    /\ pc = "yahoo"
    /\ tried_secondary' = TRUE
    /\ fallback_owed' = FALSE
    /\ sorted_strikes' = <<>> /\ dtes' = <<>> /\ ivs' = <<>> /\ term' = None /\ rv30' = None
    /\ exp_dates_filtered' \in FilteredExpiries(today)
    /\ \E p \in Prices : underlying_price' = Some(p)
    /\ i' = 0
    /\ atm_iv' = YahooFresh(atm_iv)
    /\ straddle' = YahooFresh(straddle)
    /\ straddle_at' = YahooFresh(straddle_at)
    /\ discarded' = Some([samples |-> Len(atm_iv), straddle |-> straddle # None])
    /\ exp_i' = 1
    /\ pc' = "yahoo_expiry"
    /\ last_sample' = None
    /\ UNCHANGED <<phase, ignore_filters, tickers, k, results_amc,
                   results_bmo, today, symbol, result>>
    /\ UNCHANGED <<fdVars, tsVars>>

\* the loop of line 314 is exhausted
YahooLoopDone ==
    /\ pc = "yahoo_expiry" /\ exp_i > Len(exp_dates_filtered)
    /\ pc' = "yahoo_finish"
    /\ last_sample' = None /\ discarded' = None
    /\ UNCHANGED <<phase, ignore_filters, tickers, k, results_amc,
                   results_bmo, today, symbol, exp_dates_filtered, exp_i,
                   sorted_strikes, underlying_price, atm_iv, straddle, i,
                   dtes, ivs, term, rv30, result, fallback_owed,
                   tried_secondary, straddle_at>>
    /\ UNCHANGED <<fdVars, tsVars>>

\* lines 315-318: the chain has no calls or no puts
YahooSkipExpiry ==
    /\ pc = "yahoo_expiry" /\ exp_i <= Len(exp_dates_filtered)
    /\ \E calls, puts \in SUBSET Strikes : calls = {} \/ puts = {}
    /\ exp_i' = exp_i + 1
    /\ last_sample' = None /\ discarded' = None
    /\ UNCHANGED <<pc, phase, ignore_filters, tickers, k, results_amc,
                   results_bmo, today, symbol, exp_dates_filtered,
                   sorted_strikes, underlying_price, atm_iv, straddle, i,
                   dtes, ivs, term, rv30, result, fallback_owed,
                   tried_secondary, straddle_at>>
    /\ UNCHANGED <<fdVars, tsVars>>

\* lines 319-342: the nearest call and the nearest put, each looked up in its
\* own table; the straddle on the first sample only
YahooSample ==
    /\ pc = "yahoo_expiry" /\ exp_i <= Len(exp_dates_filtered)
    /\ \E idx \in IdxminPairs(underlying_price[1]) :
       \E call_iv, put_iv \in IVs :
       \* bid and ask are read at the first sample only (lines 327-331)
       \E call_bid, call_ask, put_bid, put_ask \in
              (IF i = 0 THEN Opt(Quotes) ELSE {None}) :
          LET call_idx == idx[1]
              put_idx == idx[2]
              st == yahoo_straddle(straddle, i, call_bid, call_ask, put_bid, put_ask)
          IN  /\ atm_iv' = DictSet(atm_iv, CurExp,
                               [exp |-> CurExp, iv |-> atm_iv_value(call_iv, put_iv),
                                src |-> "yahoo"])
              /\ last_sample' = Some([exp |-> CurExp, src |-> "yahoo",
                                      call_strike |-> call_idx, put_strike |-> put_idx,
                                      call_iv |-> call_iv, put_iv |-> put_iv])
              /\ straddle' = st
              /\ straddle_at' = IF st # straddle
                                THEN Some([exp |-> CurExp, src |-> "yahoo"])
                                ELSE straddle_at
    /\ i' = i + 1
    /\ exp_i' = exp_i + 1
    /\ discarded' = None
    /\ UNCHANGED <<pc, phase, ignore_filters, tickers, k, results_amc,
                   results_bmo, today, symbol, exp_dates_filtered,
                   sorted_strikes, underlying_price, dtes, ivs, term, rv30,
                   result, fallback_owed, tried_secondary>>
    /\ UNCHANGED <<fdVars, tsVars>>

\* lines 343-344
YahooNoSample ==
    /\ pc = "yahoo_finish" /\ atm_iv = <<>>
    /\ Return(Failure("Error: Could not determine ATM IV for any expiration dates."))
    /\ last_sample' = None /\ discarded' = None
    /\ UNCHANGED <<phase, ignore_filters, tickers, k, results_amc,
                   results_bmo, today, symbol, exp_dates_filtered, exp_i,
                   sorted_strikes, underlying_price, atm_iv, straddle, i,
                   dtes, ivs, term, rv30, fallback_owed, tried_secondary,
                   straddle_at>>
    /\ UNCHANGED <<fdVars, tsVars>>

\* lines 345-354 raise (the ValueError of build_term_structure, or a division
\* by zero): the outer except returns the error
YahooTermFails ==
    /\ pc = "yahoo_finish" /\ atm_iv # <<>>
    /\ dtes' = DaysToExpiry(atm_iv, today)
    /\ ivs' = IvList(atm_iv)
    /\ build_term_structure(dtes', ivs').raised \/ CutoffDays - dtes'[1] = 0
    /\ Return(Failure(IF build_term_structure(dtes', ivs').raised
                      THEN "Error: Not enough unique expiry dates to build term structure."
                      ELSE "Error: float division by zero"))
    /\ last_sample' = None /\ discarded' = None
    /\ UNCHANGED <<phase, ignore_filters, tickers, k, results_amc,
                   results_bmo, today, symbol, exp_dates_filtered, exp_i,
                   sorted_strikes, underlying_price, atm_iv, straddle, i,
                   term, rv30, fallback_owed, tried_secondary, straddle_at>>
    /\ UNCHANGED <<fdVars, tsVars>>

\* lines 345-354: the term structure from the Yahoo samples
YahooTermOk ==
    /\ pc = "yahoo_finish" /\ atm_iv # <<>>
    /\ dtes' = DaysToExpiry(atm_iv, today)
    /\ ivs' = IvList(atm_iv)
    /\ ~build_term_structure(dtes', ivs').raised
    /\ CutoffDays - dtes'[1] # 0
    /\ \E ts \in build_term_structure(dtes', ivs').splines : term' = Some(ts)

\* line 357 raises, or the history is too short: iloc[-1] in yang_zhang on no
\* bar, or in line 361 after rolling(30) on fewer than 30 bars (IndexError)
YahooHistoryFails ==
    /\ YahooTermOk
    /\ \E raises \in BOOLEAN, n \in BarCounts :
          /\ raises \/ n < Window
          /\ rv30' = IF raises \/ n = 0 THEN rv30 ELSE Some(yang_zhang(n, 0))
          /\ Return(Failure(IF raises THEN "Error: provider unavailable"
                            ELSE "Error: single positional indexer is out-of-bounds"))
    /\ last_sample' = None /\ discarded' = None
    /\ UNCHANGED <<phase, ignore_filters, tickers, k, results_amc,
                   results_bmo, today, symbol, exp_dates_filtered, exp_i,
                   sorted_strikes, underlying_price, atm_iv, straddle, i,
                   fallback_owed, tried_secondary, straddle_at>>
    /\ UNCHANGED <<fdVars, tsVars>>

\* lines 357-363: the result from Yahoo's options and history
YahooReturn ==
    /\ YahooTermOk
    /\ \E n \in BarCounts, rv \in RVs, volume_ok \in BOOLEAN :
          /\ n >= Window
          /\ rv30' = Some(yang_zhang(n, rv))
          /\ Return(ScreeningResult(
                 volume_ok,
                 RatioFlag(term_spline(term'[1], 30), yang_zhang(n, rv)),
                 SlopeFlag(term'[1], dtes'[1]),
                 ExpectedMove(straddle, underlying_price[1])))
    /\ last_sample' = None /\ discarded' = None
    /\ UNCHANGED <<phase, ignore_filters, tickers, k, results_amc,
                   results_bmo, today, symbol, exp_dates_filtered, exp_i,
                   sorted_strikes, underlying_price, atm_iv, straddle, i,
                   fallback_owed, tried_secondary, straddle_at>>
    /\ UNCHANGED <<fdVars, tsVars>>

(* --------------------------- specifications --------------------------- *)
Init == MainInit /\ FilterIdle /\ TermIdle

Next ==
    \/ GetEarnings \/ GetEarningsRaises \/ LoopCall \/ LoopEndAMC \/ LoopEndBMO
    \/ LoopAppend
    \/ BlankTicker \/ AlpacaChainRaises \/ AlpacaChainEmpty
    \/ AlpacaFilterRaises \/ AlpacaFilterOk
    \/ AlpacaPriceOk \/ AlpacaPriceFromYahoo \/ AlpacaPriceNone
    \/ AlpacaLoopDone \/ AlpacaNoStrikes \/ AlpacaRankStrikes
    \/ AlpacaNoContract \/ AlpacaSnapshotRaises \/ AlpacaNoSnapshot
    \/ AlpacaNoQuote \/ AlpacaNoIV \/ AlpacaSample \/ AlpacaSkipExpiry
    \/ AlpacaRejected \/ AlpacaAccepted
    \/ AlpacaBarsRaise \/ AlpacaBarsShort \/ AlpacaVolumeFails \/ AlpacaReturn
    \/ YahooNoOptions \/ YahooRaises \/ YahooFilterRaises \/ YahooPriceFails
    \/ YahooReady \/ YahooLoopDone \/ YahooSkipExpiry \/ YahooSample
    \/ YahooNoSample \/ YahooTermFails \/ YahooHistoryFails \/ YahooReturn

Spec == Init /\ [][Next]_vars

InitFilter == MainIdle /\ FilterInit /\ TermIdle
NextFilter == FilterCall
SpecFilter == InitFilter /\ [][NextFilter]_vars

InitTerm == MainIdle /\ FilterIdle /\ TermInit
NextTerm == TermBuildRaises \/ TermBuild \/ TermQuery
SpecTerm == InitTerm /\ [][NextTerm]_vars

(* ------------------------------ properties ---------------------------- *)
Returning == pc = "ret"
ReturnsDict == pc = "ret" /\ result[1].kind = "dict"
ReturnsError == pc = "ret" /\ result[1].kind = "error"
SourcesOf(d) == {d[a].src : a \in 1..Len(d)}

\* C1: the samples in atm_iv never mix providers; while the Yahoo loop runs
\* and after it, atm_iv and the straddle hold nothing taken from Alpaca; and
\* the term structure behind a returned dict is built from exactly the
\* samples of the one provider the run ended on.
C1_SamplesOfOneProvider ==
    /\ Cardinality(SourcesOf(atm_iv)) <= 1
    /\ pc \in {"yahoo_expiry", "yahoo_finish"} =>
          /\ SourcesOf(atm_iv) \subseteq {"yahoo"}
          /\ straddle # None => straddle_at # None /\ straddle_at[1].src = "yahoo"
    /\ ReturnsDict =>
          /\ SourcesOf(atm_iv) = {IF tried_secondary THEN "yahoo" ELSE "alpaca"}
          /\ straddle # None => straddle_at[1].src \in SourcesOf(atm_iv)
          /\ dtes = DaysToExpiry(atm_iv, today)
          /\ ivs = IvList(atm_iv)
          /\ term[1] \in build_term_structure(dtes, ivs).splines

\* Alpaca gave one sample and a straddle; both were dropped and the Yahoo
\* loop starts on an empty atm_iv
C1_Witness ==
    /\ pc = "yahoo_expiry" /\ exp_i = 1
    /\ discarded = Some([samples |-> 1, straddle |-> TRUE])
    /\ atm_iv = <<>> /\ straddle = None

\* C2: a run in which a call to Alpaca raised does not return an error
\* unless Yahoo has been tried since.
C2_ProviderErrorFallsBack == (ReturnsError /\ fallback_owed) => tried_secondary

\* C3: the loop iteration of a symbol whose run returned an error leaves
\* results_amc and results_bmo as they were, with or without
\* --ignore-filters.
C3_FailedRunLeavesResults ==
    [][ReturnsError => (results_amc' = results_amc /\ results_bmo' = results_bmo)]_vars

\* C4: a straddle that is set was computed at the first expiration of the
\* provider's loop that gave a sample (the first key of atm_iv), never at a
\* later one.
C4_StraddleAtFirstSample ==
    straddle # None =>
        /\ atm_iv # <<>>
        /\ straddle_at # None
        /\ straddle_at[1].exp = atm_iv[1].exp

\* C5: a sample put into atm_iv is the mean of a call IV and a put IV of
\* the same strike of its expiration.
C5_SampleAtOneStrike ==
    last_sample # None =>
        /\ last_sample[1].call_strike = last_sample[1].put_strike
        /\ \E a \in 1..Len(atm_iv) :
              /\ atm_iv[a].exp = last_sample[1].exp
              /\ 2 * atm_iv[a].iv = last_sample[1].call_iv + last_sample[1].put_iv

FdInDays == [j \in 1..Len(fd_dates) |-> strptime(fd_dates[j])]
FdOutDays == [j \in 1..Len(fd_out.val) |-> strptime(fd_out.val[j])]
FdReaching == {d \in Range(FdInDays) : d >= today + CutoffDays}
\* how often day d must occur in the output: every copy of a day before
\* the cutoff, less today's once when today is the earliest date, and the
\* first day at or after the cutoff once
FdExpected(d) ==
    IF d < today + CutoffDays
    THEN Count(FdInDays, d)
         - (IF d = today /\ Min(Range(FdInDays)) = today THEN 1 ELSE 0)
    ELSE IF d = Min(FdReaching) THEN 1 ELSE 0

\* C6: when a date of the input is >= today + 45 days, filter_dates returns
\* the dates in ascending order up to and including the first such date and
\* none after it, less the first element exactly when it is today's date,
\* each written as %Y-%m-%d.
C6_FilterDatesPrefix ==
    (fd_pc = "done" /\ FdReaching # {}) =>
        /\ ~fd_out.raised
        /\ \A a \in 1..(Len(FdOutDays) - 1) : FdOutDays[a] <= FdOutDays[a + 1]
        /\ \A d \in FilterDays : Count(FdOutDays, d) = FdExpected(d)
        /\ \A a \in 1..Len(fd_out.val) : fd_out.val[a] = strftime(FdOutDays[a])

\* [today, today+10, today+50] gives [today+10, today+50]
C6_Witness ==
    /\ fd_pc = "done"
    /\ FdInDays = <<today, today + 10, today + CutoffDays + 5>>
    /\ ~fd_out.raised
    /\ FdOutDays = <<today + 10, today + CutoffDays + 5>>

\* C7: filter_dates raises when no date of the input (the empty input
\* included) is >= today + 45 days, and what it returns is never empty.
C7_FilterDatesRaises ==
    fd_pc = "done" =>
        /\ FdReaching = {} => fd_out.raised
        /\ ~fd_out.raised => fd_out.val # <<>>

\* the input holds today's date alone: nothing would be left of it
C7_Witness ==
    /\ fd_pc = "done"
    /\ FdInDays = <<today>>
    /\ fd_out.raised

\* C8: a query at or below the smallest day of the input returns the IV of
\* a sample of that day, a query at or above the largest day the IV of a
\* sample of that day.
C8_FlatExtrapolation ==
    ts_pc = "queried" =>
        /\ ts_query <= Min(Range(ts_days)) =>
              \E a \in 1..Len(ts_days) :
                  /\ ts_days[a] = Min(Range(ts_days))
                  /\ RatEq(ts_value, Rat(ts_ivs[a]))
        /\ ts_query >= Max(Range(ts_days)) =>
              \E a \in 1..Len(ts_days) :
                  /\ ts_days[a] = Max(Range(ts_days))
                  /\ RatEq(ts_value, Rat(ts_ivs[a]))

\* build_term_structure raises on every input of up to MaxSamples samples
\* with fewer than two distinct days: the empty input and every input whose
\* samples all share one day
DegenerateInputsRaise ==
    \A n \in 0..MaxSamples :
        \A d \in TermDays, v \in [1..n -> TermIVs] :
            build_term_structure([j \in 1..n |-> d], v).raised

\* C9: build_term_structure raises on every input with fewer than two
\* distinct days to expiry, and a run returns a dict only if the samples of
\* the provider it ended on have at least two distinct days to expiry.
C9_DegenerateTermStructureFails ==
    \* the first conjunct does not depend on the state: it is evaluated
    \* before the batch starts
    /\ pc = "fetch" => DegenerateInputsRaise
    /\ Returning =>
          (Cardinality(Range(DaysToExpiry(atm_iv, today))) < 2 => ReturnsError)

\* Yahoo gave a single sample and the run ends with the ValueError
C9_Witness ==
    /\ ReturnsError /\ tried_secondary
    /\ Len(atm_iv) = 1
    /\ result[1].msg = "Error: Not enough unique expiry dates to build term structure."

\* C10: a run returns a dict only if the realized volatility it divided by
\* is defined at the latest bar.
C10_NoResultFromUndefinedRV ==
    ReturnsDict => (rv30 # None /\ ~IsNaN(rv30[1]))

AllFlagsTrue(res) ==
    res.kind = "dict" /\ res.avg_volume /\ res.iv30_rv30 /\ res.ts_slope_0_45

\* C11: without --ignore-filters, every entry of results_amc and of
\* results_bmo holds a dict whose avg_volume, iv30_rv30 and ts_slope_0_45
\* flags are all true; a dict with a false flag and a failure string are
\* never added.
C11_OnlyPassingResultsAdded ==
    ~ignore_filters =>
        /\ \A a \in 1..Len(results_amc) : AllFlagsTrue(results_amc[a].result)
        /\ \A b \in 1..Len(results_bmo) : AllFlagsTrue(results_bmo[b].result)

\* filtering is on and the BMO loop has added a symbol that passed
C11_Witness ==
    /\ ~ignore_filters
    /\ Len(results_bmo) = 1
    /\ AllFlagsTrue(results_bmo[1].result)
    /\ results_bmo[1].ticker = symbol

\* C12: whenever the slope is evaluated (dtes is set and
\* build_term_structure did not raise on it), dtes[0] is the smallest of the
\* sampled days to expiry and is below 45, so that 45 - dtes[0] is not zero;
\* no run ends in a division by zero.
C12_SlopeDenominatorNonZero ==
    /\ (dtes # <<>> /\ ~build_term_structure(dtes, ivs).raised) =>
          /\ \A a \in 1..Len(dtes) : dtes[1] <= dtes[a]
          /\ dtes[1] < CutoffDays
          /\ CutoffDays - dtes[1] # 0
    /\ Returning => result[1].msg # "Error: float division by zero"

\* the slope is taken over samples at 20 and at exactly 45 days
C12_Witness ==
    /\ pc = "alpaca_rv" /\ term # None
    /\ dtes = <<20, CutoffDays>>

====
